---- MODULE Spec2Model ----
(***************************************************************************)
(* Model of TDSP-1-main/tasksB.py: the sandbox guard B12 and the task      *)
(* functions B3..B9 built on it.                                           *)
(*                                                                         *)
(* Python strings are sequences of one-character strings, so that          *)
(* str.startswith, str.split and str.endswith work on characters as they   *)
(* do in the code.  A Python value is a record [type, s]: a str carries    *)
(* its characters in s, None and int carry the empty sequence.             *)
(***************************************************************************)
EXTENDS Naturals, Sequences, FiniteSets

VARIABLES cwd, env_key, task, path1, path2, resize, pc, outcome, result,
          resp, handles, trace

vars == <<cwd, env_key, task, path1, path2, resize, pc, outcome, result,
          resp, handles, trace>>

(***************************************************************************)
(* Bounds of the model.                                                    *)
(***************************************************************************)
\* longest candidate path, in segments, handed to B12 directly
MaxSegs == 3
\* longest path argument, in segments, handed to a task
MaxTaskSegs == 1

(***************************************************************************)
(* Python values and string literals.                                      *)
(***************************************************************************)
PyStr(s) == [type |-> "str", s |-> s]
PyNone == [type |-> "NoneType", s |-> <<>>]
PyInt == [type |-> "int", s |-> <<>>]
\* placeholder for a parameter the called function does not have
NoArg == [type |-> "absent", s |-> <<>>]

sep == "/"
S_root == <<"/">>
S_data == <<"d", "a", "t", "a">>
S_database == <<"d", "a", "t", "a", "b", "a", "s", "e">>
S_etc == <<"e", "t", "c">>
S_dot == <<".">>
S_dotdot == <<".", ".">>
S_xdb == <<"x", ".", "d", "b">>
S_dummy == <<"d", "u", "m", "m", "y", ".", "t", "x", "t">>
S_dotdb == <<".", "d", "b">>
\* the literal '/data' of B12
S_slash_data == <<sep>> \o S_data
\* the default clone_dir of B4, '/data/repo'
S_default_clone_dir == S_slash_data \o <<sep, "r", "e", "p", "o">>

(***************************************************************************)
(* str methods.                                                            *)
(***************************************************************************)
startswith(s, prefix) ==
    /\ Len(prefix) <= Len(s)
    /\ SubSeq(s, 1, Len(prefix)) = prefix

endswith(s, suffix) ==
    /\ Len(suffix) <= Len(s)
    /\ SubSeq(s, Len(s) - Len(suffix) + 1, Len(s)) = suffix

\* s.split('/')
RECURSIVE split(_)
split(s) ==
    IF \A i \in 1..Len(s) : s[i] # sep
    THEN <<s>>
    ELSE LET k == CHOOSE i \in 1..Len(s) :
                      s[i] = sep /\ \A j \in 1..(i - 1) : s[j] # sep
         IN  <<SubSeq(s, 1, k - 1)>> \o split(SubSeq(s, k + 1, Len(s)))

\* '/'.join(comps)
RECURSIVE slashjoin(_)
slashjoin(comps) ==
    IF comps = <<>> THEN <<>>
    ELSE IF Len(comps) = 1 THEN comps[1]
    ELSE comps[1] \o <<sep>> \o slashjoin(Tail(comps))

(***************************************************************************)
(* posixpath, as called by the code through os.path.                       *)
(***************************************************************************)
isabs(s) == startswith(s, <<sep>>)

\* os.path.join(a, b)
path_join(a, b) ==
    IF isabs(b) THEN b
    ELSE IF a = <<>> \/ endswith(a, <<sep>>) THEN a \o b
    ELSE a \o <<sep>> \o b

\* number of leading slashes normpath keeps: 0, 1, or 2 for exactly two
initial_slashes(s) ==
    IF ~startswith(s, <<sep>>) THEN 0
    ELSE IF startswith(s, <<sep, sep>>) /\ ~startswith(s, <<sep, sep, sep>>) THEN 2
    ELSE 1

\* the component loop of normpath
RECURSIVE norm_comps(_, _, _)
norm_comps(comps, new_comps, slashes) ==
    IF comps = <<>> THEN new_comps
    ELSE LET comp == Head(comps)
             rest == Tail(comps)
         IN  IF comp = <<>> \/ comp = S_dot
             THEN norm_comps(rest, new_comps, slashes)
             ELSE IF \/ comp # S_dotdot
                     \/ (slashes = 0 /\ new_comps = <<>>)
                     \/ (new_comps # <<>> /\ new_comps[Len(new_comps)] = S_dotdot)
             THEN norm_comps(rest, Append(new_comps, comp), slashes)
             ELSE IF new_comps # <<>>
             THEN norm_comps(rest, SubSeq(new_comps, 1, Len(new_comps) - 1), slashes)
             ELSE norm_comps(rest, new_comps, slashes)

normpath(s) ==
    IF s = <<>> THEN S_dot
    ELSE LET n == initial_slashes(s)
             body == slashjoin(norm_comps(split(s), <<>>, n))
             out == [i \in 1..n |-> sep] \o body
         IN  IF out = <<>> THEN S_dot ELSE out

\* os.path.abspath(s) for a str s, with os.getcwd() = dir
abspath(s, dir) ==
    IF isabs(s) THEN normpath(s) ELSE normpath(path_join(dir, s))

\* os.fspath raises TypeError for anything that is not a str (or bytes, PathLike)
fspath_raises(v) == v.type # "str"

(***************************************************************************)
(* B12, the sandbox guard.                                                 *)
(***************************************************************************)
B12_raises(filepath) == fspath_raises(filepath)

B12(filepath, dir) ==
    LET normalized == abspath(filepath.s, dir)
        allowed_dir == abspath(S_slash_data, dir)
    IN  startswith(normalized, allowed_dir)

(***************************************************************************)
(* Inputs: candidate paths built from a pool of segments, absolute or      *)
(* relative; the empty segment gives doubled and trailing slashes.         *)
(***************************************************************************)
SegPool == {S_data, S_database, S_etc, S_dot, S_dotdot, <<>>}
TaskSegPool == {S_data, S_database, S_dotdot, S_xdb}

PathString(abs, segs) == (IF abs THEN <<sep>> ELSE <<>>) \o slashjoin(segs)

PathsUpTo(n, pool) ==
    {PathString(abs, segs) :
        abs \in BOOLEAN, segs \in UNION {[1..k -> pool] : k \in 0..n}}

\* what a caller may hand to B12: any str of the pool, or a value that is no path
B12Args == {PyStr(s) : s \in PathsUpTo(MaxSegs, SegPool)} \cup {PyNone, PyInt}

\* what a caller may hand to a task as a path argument
TaskArgs == {PyStr(s) : s \in PathsUpTo(MaxTaskSegs, TaskSegPool)} \cup {PyNone}

\* os.getcwd(): the process's working directory, a normalized absolute path
Cwds == {S_root, S_slash_data, <<sep>> \o S_database}

(***************************************************************************)
(* A direct call of B12(filepath).                                         *)
(***************************************************************************)
InitB12 ==
    /\ cwd \in Cwds
    /\ env_key = FALSE
    /\ task = "B12"
    /\ path1 \in B12Args
    /\ path2 = NoArg
    /\ resize = FALSE
    /\ pc = "B12_20"
    /\ outcome = "running"
    /\ result = "none"
    /\ resp = "none"
    /\ handles = {}
    /\ trace = <<>>

B12_call ==
    /\ task = "B12"
    /\ pc = "B12_20"
    /\ pc' = "done"
    /\ IF B12_raises(path1)
       THEN /\ outcome' = "TypeError"
            /\ result' = result
       ELSE /\ outcome' = "returned"
            /\ result' = IF B12(path1, cwd) THEN "True" ELSE "False"
    /\ UNCHANGED <<cwd, env_key, task, path1, path2, resize, resp, handles, trace>>

NextB12 == B12_call

SpecB12 == InitB12 /\ [][NextB12]_vars

(***************************************************************************)
(* A call of one task.  Each action is one statement of the task; trace    *)
(* records, in order, every guard evaluation and every external effect     *)
(* (network call, subprocess, database call, file open, status notice).    *)
(***************************************************************************)
Tasks == {"B3", "B4", "B5", "B6", "B7", "B8", "B9"}
\* the tasks with two path parameters
TwoPathTasks == {"B5", "B7", "B8", "B9"}

Ev(op, path, ok) == [op |-> op, path |-> path, ok |-> ok]

Init ==
    /\ cwd \in Cwds
    /\ env_key \in BOOLEAN
    /\ task = "none"
    /\ path1 = NoArg
    /\ path2 = NoArg
    /\ resize = FALSE
    /\ pc = "idle"
    /\ outcome = "running"
    /\ result = "none"
    /\ resp = "none"
    /\ handles = {}
    /\ trace = <<>>

\* the first statement of each task
Entry(t) ==
    CASE t = "B3" -> "B3_32"
      [] t = "B4" -> "B4_49"
      [] t = "B5" -> "B5_75"
      [] t = "B6" -> "B6_102"
      [] t = "B7" -> "B7_120"
      [] t = "B8" -> "B8_138"
      [] t = "B9" -> "B9_164"

\* a caller invokes one task with its arguments
Call ==
    /\ pc = "idle"
    /\ \E t \in Tasks, a \in TaskArgs \cup {PyStr(S_default_clone_dir)},
          b \in TaskArgs, r \in BOOLEAN :
        /\ a = PyStr(S_default_clone_dir) => t = "B4"
        /\ task' = t
        /\ path1' = a
        /\ path2' = IF t \in TwoPathTasks THEN b ELSE NoArg
        /\ resize' = IF t = "B7" THEN r ELSE FALSE
        /\ pc' = Entry(t)
    /\ UNCHANGED <<cwd, env_key, outcome, result, resp, handles, trace>>

Raise(exc) == outcome' = exc /\ pc' = "done"
Goto(next) == outcome' = outcome /\ pc' = next
Return == outcome' = "returned" /\ pc' = "done"

\* `not B12(p1) or not B12(p2)`: the guard evaluated left to right, stopping at
\* the first path it does not allow
RECURSIVE guard_events(_, _)
guard_events(paths, dir) ==
    IF paths = <<>> THEN <<>>
    ELSE LET p == Head(paths)
         IN  IF B12_raises(p) THEN <<Ev("B12", p, "raise")>>
             ELSE IF ~B12(p, dir) THEN <<Ev("B12", p, "False")>>
             ELSE <<Ev("B12", p, "True")>> \o guard_events(Tail(paths), dir)

\* mutant of CheckPaths: only the first path argument is put to the guard
CheckPaths_first_only(paths, next) ==
    LET evs == guard_events(<<Head(paths)>>, cwd)
        last == evs[Len(evs)]
    IN  /\ trace' = trace \o evs
        /\ IF last.ok = "raise" THEN Raise("TypeError")
           ELSE IF last.ok = "False" THEN Raise("PermissionError")
           ELSE Goto(next)
        /\ UNCHANGED <<cwd, env_key, task, path1, path2, resize, result, resp, handles>>

\* if not B12(..) [or not B12(..)]: raise PermissionError(..)
CheckPaths(paths, next) ==
    LET evs == guard_events(paths, cwd)
        last == evs[Len(evs)]
    IN  /\ trace' = trace \o evs
        /\ IF last.ok = "raise" THEN Raise("TypeError")
           ELSE IF last.ok = "False" THEN Raise("PermissionError")
           ELSE Goto(next)
        /\ UNCHANGED <<cwd, env_key, task, path1, path2, resize, result, resp, handles>>

\* with open(p, 'w') as file: file.write(..)
WriteFile(p, next) ==
    /\ \E r \in {"ok", "OSError"} :
        /\ trace' = Append(trace, Ev("open_w", p, r))
        /\ IF r = "ok" THEN Goto(next) ELSE Raise("OSError")
    /\ UNCHANGED <<cwd, env_key, task, path1, path2, resize, result, resp, handles>>

\* print(..) as the last statement of a task without a return value
PrintNotice ==
    /\ trace' = Append(trace, Ev("print", NoArg, "ok"))
    /\ Return
    /\ UNCHANGED <<cwd, env_key, task, path1, path2, resize, result, resp, handles>>

\* print(..) followed by return <value>
PrintNoticeReturn(value) ==
    /\ trace' = Append(trace, Ev("print", NoArg, "ok"))
    /\ Return
    /\ result' = value
    /\ UNCHANGED <<cwd, env_key, task, path1, path2, resize, resp, handles>>

\* mutant of SubprocessRun: check=True left out, the exit status is ignored
SubprocessRun_unchecked(cmd, p, next) ==
    /\ \E r \in {"zero", "nonzero"} :
        /\ trace' = Append(trace, Ev(cmd, p, r))
        /\ Goto(next)
    /\ UNCHANGED <<cwd, env_key, task, path1, path2, resize, result, resp, handles>>

\* subprocess.run([...], check=True)
SubprocessRun(cmd, p, next) ==
    /\ \E r \in {"zero", "nonzero"} :
        /\ trace' = Append(trace, Ev(cmd, p, r))
        /\ IF r = "zero" THEN Goto(next) ELSE Raise("CalledProcessError")
    /\ UNCHANGED <<cwd, env_key, task, path1, path2, resize, result, resp, handles>>

(* B3: fetch data from an API *)
B3_guard == task = "B3" /\ pc = "B3_32" /\ CheckPaths(<<path1>>, "B3_34")

B3_get ==
    /\ task = "B3" /\ pc = "B3_34"
    /\ \E r \in {"2xx", "non2xx", "ConnectionError"} :
        /\ trace' = Append(trace, Ev("requests.get", NoArg, r))
        /\ IF r = "ConnectionError"
           THEN Raise("ConnectionError") /\ resp' = resp
           ELSE Goto("B3_35") /\ resp' = r
    /\ UNCHANGED <<cwd, env_key, task, path1, path2, resize, result, handles>>

B3_raise_for_status ==
    /\ task = "B3" /\ pc = "B3_35"
    /\ IF resp = "non2xx" THEN Raise("HTTPError") ELSE Goto("B3_36")
    /\ UNCHANGED <<cwd, env_key, task, path1, path2, resize, result, resp, handles, trace>>

B3_write == task = "B3" /\ pc = "B3_36" /\ WriteFile(path1, "B3_38")

B3_print == task = "B3" /\ pc = "B3_38" /\ PrintNotice

(* B4: clone a git repo and make a commit *)
B4_guard == task = "B4" /\ pc = "B4_49" /\ CheckPaths(<<path1>>, "B4_53")

B4_clone == task = "B4" /\ pc = "B4_53" /\ SubprocessRun("git clone", path1, "B4_57")

dummy_file(clone_dir) == PyStr(path_join(clone_dir.s, S_dummy))

B4_dummy == task = "B4" /\ pc = "B4_57" /\ WriteFile(dummy_file(path1), "B4_62")

B4_add == task = "B4" /\ pc = "B4_62" /\ SubprocessRun("git add", path1, "B4_63")

B4_commit == task = "B4" /\ pc = "B4_63" /\ SubprocessRun("git commit", path1, "B4_64")

B4_print == task = "B4" /\ pc = "B4_64" /\ PrintNotice

(* B5: run a SQL query on a SQLite or DuckDB database *)
B5_guard == task = "B5" /\ pc = "B5_75" /\ CheckPaths(<<path1, path2>>, "B5_78")

\* the engine chosen by the suffix of db_path
engine(db_path) ==
    IF endswith(db_path.s, S_dotdb) THEN "sqlite3.connect" ELSE "duckdb.connect"

B5_connect ==
    /\ task = "B5" /\ pc = "B5_78"
    /\ \E r \in {"ok", "fail"} :
        /\ trace' = Append(trace, Ev(engine(path1), path1, r))
        /\ IF r = "ok"
           THEN Goto("B5_83") /\ handles' = handles \cup {"conn"}
           ELSE Raise("DatabaseError") /\ handles' = handles
    /\ UNCHANGED <<cwd, env_key, task, path1, path2, resize, result, resp>>

\* cur = conn.cursor(); cur.execute(query); result = cur.fetchall()
B5_execute ==
    /\ task = "B5" /\ pc = "B5_83"
    /\ \E r \in {"ok", "malformed"} :
        /\ trace' = Append(trace, Ev("execute", NoArg, r))
        /\ IF r = "ok" THEN Goto("B5_86") ELSE Raise("DatabaseError")
    /\ UNCHANGED <<cwd, env_key, task, path1, path2, resize, result, resp, handles>>

B5_close ==
    /\ task = "B5" /\ pc = "B5_86"
    /\ handles' = handles \ {"conn"}
    /\ Goto("B5_88")
    /\ UNCHANGED <<cwd, env_key, task, path1, path2, resize, result, resp, trace>>

B5_write == task = "B5" /\ pc = "B5_88" /\ WriteFile(path2, "B5_91")

B5_print_return == task = "B5" /\ pc = "B5_91" /\ PrintNoticeReturn("rows")

(* B6: web scraping *)
B6_guard == task = "B6" /\ pc = "B6_102" /\ CheckPaths(<<path1>>, "B6_105")

\* result = requests.get(url).text: the status of the response is not looked at
B6_get ==
    /\ task = "B6" /\ pc = "B6_105"
    /\ \E r \in {"2xx", "non2xx", "ConnectionError"} :
        /\ trace' = Append(trace, Ev("requests.get", NoArg, r))
        /\ IF r = "ConnectionError"
           THEN Raise("ConnectionError") /\ resp' = resp
           ELSE Goto("B6_106") /\ resp' = r
    /\ UNCHANGED <<cwd, env_key, task, path1, path2, resize, result, handles>>

B6_write == task = "B6" /\ pc = "B6_106" /\ WriteFile(path1, "B6_109")

B6_print == task = "B6" /\ pc = "B6_109" /\ PrintNotice

(* B7: compress or resize an image *)
B7_guard == task = "B7" /\ pc = "B7_120" /\ CheckPaths(<<path1, path2>>, "B7_123")

\* img = Image.open(image_path): the file stays open behind img
B7_open ==
    /\ task = "B7" /\ pc = "B7_123"
    /\ \E r \in {"ok", "OSError"} :
        /\ trace' = Append(trace, Ev("Image.open", path1, r))
        /\ IF r = "ok"
           THEN Goto("B7_124") /\ handles' = handles \cup {"image"}
           ELSE Raise("OSError") /\ handles' = handles
    /\ UNCHANGED <<cwd, env_key, task, path1, path2, resize, result, resp>>

\* if resize: img = img.resize(resize)
B7_resize ==
    /\ task = "B7" /\ pc = "B7_124"
    /\ trace' = IF resize THEN Append(trace, Ev("img.resize", NoArg, "ok")) ELSE trace
    /\ Goto("B7_126")
    /\ UNCHANGED <<cwd, env_key, task, path1, path2, resize, result, resp, handles>>

\* img.save(output_path).  The code never closes the image: whether the
\* library has let go of the file by now (it may after loading the pixels)
\* is its choice, not the code's.
B7_save ==
    /\ task = "B7" /\ pc = "B7_126"
    /\ \E r \in {"ok", "OSError"}, released \in BOOLEAN :
        /\ trace' = Append(trace, Ev("open_w", path2, r))
        /\ handles' = IF released THEN handles \ {"image"} ELSE handles
        /\ IF r = "ok" THEN Goto("B7_127") ELSE Raise("OSError")
    /\ UNCHANGED <<cwd, env_key, task, path1, path2, resize, result, resp>>

B7_print == task = "B7" /\ pc = "B7_127" /\ PrintNotice

(* B8: transcribe audio *)
B8_guard == task = "B8" /\ pc = "B8_138" /\ CheckPaths(<<path1, path2>>, "B8_142")

\* mutant of B8_api_key: the key is read but its absence is not checked
B8_api_key_unchecked ==
    /\ task = "B8" /\ pc = "B8_142"
    /\ Goto("B8_146")
    /\ UNCHANGED <<cwd, env_key, task, path1, path2, resize, result, resp, handles, trace>>

\* openai.api_key = os.environ.get("OPENAI_API_KEY"); if it is None: raise ValueError
B8_api_key ==
    /\ task = "B8" /\ pc = "B8_142"
    /\ IF ~env_key THEN Raise("ValueError") ELSE Goto("B8_146")
    /\ UNCHANGED <<cwd, env_key, task, path1, path2, resize, result, resp, handles, trace>>

\* with open(audio_path, 'rb') as audio_file: transcript = openai.Audio.transcribe(..)
B8_transcribe ==
    /\ task = "B8" /\ pc = "B8_146"
    /\ \E r \in {"ok", "OSError", "APIError"} :
        /\ trace' = IF r = "OSError"
                    THEN Append(trace, Ev("open_r", path1, "OSError"))
                    ELSE trace \o <<Ev("open_r", path1, "ok"),
                                    Ev("Audio.transcribe", NoArg, r)>>
        /\ IF r = "ok" THEN Goto("B8_149") ELSE Raise(r)
    /\ UNCHANGED <<cwd, env_key, task, path1, path2, resize, result, resp, handles>>

B8_write == task = "B8" /\ pc = "B8_149" /\ WriteFile(path2, "B8_153")

B8_print_return == task = "B8" /\ pc = "B8_153" /\ PrintNoticeReturn("text")

(* B9: convert Markdown to HTML *)
B9_guard == task = "B9" /\ pc = "B9_164" /\ CheckPaths(<<path1, path2>>, "B9_167")

\* with open(md_path, 'r') as file: html = markdown.markdown(file.read())
B9_read ==
    /\ task = "B9" /\ pc = "B9_167"
    /\ \E r \in {"ok", "OSError"} :
        /\ trace' = Append(trace, Ev("open_r", path1, r))
        /\ IF r = "ok" THEN Goto("B9_170") ELSE Raise("OSError")
    /\ UNCHANGED <<cwd, env_key, task, path1, path2, resize, result, resp, handles>>

B9_write == task = "B9" /\ pc = "B9_170" /\ WriteFile(path2, "B9_173")

B9_print == task = "B9" /\ pc = "B9_173" /\ PrintNotice

Next ==
    \/ Call
    \/ B3_guard \/ B3_get \/ B3_raise_for_status \/ B3_write \/ B3_print
    \/ B4_guard \/ B4_clone \/ B4_dummy \/ B4_add \/ B4_commit \/ B4_print
    \/ B5_guard \/ B5_connect \/ B5_execute \/ B5_close \/ B5_write \/ B5_print_return
    \/ B6_guard \/ B6_get \/ B6_write \/ B6_print
    \/ B7_guard \/ B7_open \/ B7_resize \/ B7_save \/ B7_print
    \/ B8_guard \/ B8_api_key \/ B8_transcribe \/ B8_write \/ B8_print_return
    \/ B9_guard \/ B9_read \/ B9_write \/ B9_print

Spec == Init /\ [][Next]_vars

(***************************************************************************)
(* Properties.                                                             *)
(***************************************************************************)
IsPrefixSeq(a, b) == Len(a) <= Len(b) /\ SubSeq(b, 1, Len(a)) = a

\* the normalized absolute form of p is the sandbox root or nested under it,
\* compared segment by segment
UnderRoot(p, dir) ==
    IsPrefixSeq(split(abspath(S_slash_data, dir)), split(abspath(p, dir)))

\* the normalized absolute form of p is a sibling of the root whose name
\* has the root's name as a proper string prefix ('/database', '/data2/x')
SiblingOfRoot(p, dir) ==
    LET segs == split(abspath(p, dir))
    IN  /\ Len(segs) >= 2
        /\ segs[1] = <<>>
        /\ startswith(segs[2], S_data)
        /\ segs[2] # S_data

\* the call of B12 has ended
B12Ended == task = "B12" /\ pc = "done"

\* C1: for every candidate path P, B12(P) returns true if and only if the
\* segment list of P's normalized absolute form begins with the segment list
\* of the sandbox root '/data'.
C1_GuardIffUnderRoot ==
    (B12Ended /\ path1.type = "str") =>
        /\ outcome = "returned"
        /\ (result = "True") <=> UnderRoot(path1.s, cwd)

\* C2: B12 accepts the root '/data' itself and rejects every sibling path
\* whose name merely has the root as a string prefix.
C2_RootAcceptedSiblingsRejected ==
    (B12Ended /\ path1.type = "str") =>
        /\ path1.s = S_slash_data => result = "True"
        /\ SiblingOfRoot(path1.s, cwd) => result = "False"

\* C3: every candidate that starts with '/data' textually but whose '..'
\* segments resolve to a location outside the root is rejected.
C3_DotDotEscapeRejected ==
    (/\ B12Ended
     /\ path1.type = "str"
     /\ startswith(path1.s, S_slash_data)
     /\ \E i \in 1..Len(split(path1.s)) : split(path1.s)[i] = S_dotdot
     /\ ~UnderRoot(path1.s, cwd))
        => result = "False"

\* C4: B12 never raises: for every input, malformed input included, the call
\* returns, and for input that is no path it returns false.
C4_GuardNeverRaises ==
    B12Ended =>
        /\ outcome = "returned"
        /\ path1.type # "str" => result = "False"

\* the path arguments of the running task
PathArgs == {path1} \cup (IF task \in TwoPathTasks THEN {path2} ELSE {})

IsEffect(e) == e.op # "B12"
\* the external effects performed so far, in order
Effects == SelectSeq(trace, IsEffect)

\* C5: in every task the guard is evaluated on every path argument before any
\* other step, and once the guard has returned false for a path argument the
\* task ends with PermissionError and has performed no external effect.
C5_GuardBeforeAnyEffect ==
    task \in Tasks =>
        /\ (\E i \in 1..Len(trace) : trace[i].op = "B12" /\ trace[i].ok = "False")
               => (outcome = "PermissionError" /\ pc = "done" /\ Effects = <<>>)
        /\ \A j \in 1..Len(trace) :
               IsEffect(trace[j]) =>
                   \A p \in PathArgs :
                       \E i \in 1..(j - 1) : trace[i] = Ev("B12", p, "True")

\* B5 was refused because of its second path argument alone
C5_Witness ==
    /\ task = "B5"
    /\ outcome = "PermissionError"
    /\ trace = <<Ev("B12", path1, "True"), Ev("B12", path2, "False")>>

\* the operations that touch the file system at the path of their event
FileOps ==
    {"open_w", "open_r", "Image.open", "sqlite3.connect", "duckdb.connect",
     "git clone", "git add", "git commit"}

\* C6: every file or directory a task opens, reads, creates or writes lies
\* under the sandbox root by path segments, and a call with a path argument
\* outside the root performs no external effect.
C6_FilesUnderRoot ==
    task \in Tasks =>
        /\ \A i \in 1..Len(trace) :
               trace[i].op \in FileOps => UnderRoot(trace[i].path.s, cwd)
        /\ (\E p \in PathArgs : p.type = "str" /\ ~UnderRoot(p.s, cwd))
               => Effects = <<>>

\* C7: in B3 and in B6, when the HTTP response indicates failure the task
\* ends with an error, writes no output file and prints no notice.
C7_HttpFailureIsFatal ==
    (task \in {"B3", "B6"} /\ resp = "non2xx") =>
        /\ \A i \in 1..Len(trace) : trace[i].op \notin {"open_w", "print"}
        /\ pc = "done" => outcome # "returned"

\* both path arguments of the task passed the guard
BothGuardsPassed ==
    /\ Len(trace) >= 2
    /\ trace[1] = Ev("B12", path1, "True")
    /\ trace[2] = Ev("B12", path2, "True")

\* C8: in B8, with OPENAI_API_KEY absent, the task performs no file open, no
\* transcription call and no write, and once both paths have passed the guard
\* it ends with ValueError.
C8_NoCredentialNoAudio ==
    (task = "B8" /\ ~env_key) =>
        /\ Effects = <<>>
        /\ (BothGuardsPassed /\ pc = "done") => outcome = "ValueError"

C8_Witness ==
    /\ task = "B8"
    /\ ~env_key
    /\ BothGuardsPassed
    /\ outcome = "ValueError"

\* the operations of B4 in the order of the code
B4Order == <<"git clone", "open_w", "git add", "git commit", "print">>

\* C9: B4 runs clone, marker file, stage, commit in this order; a subprocess
\* step that exits non-zero is the last step and ends the task with
\* CalledProcessError; the notice is printed only after the commit succeeded.
C9_CloneStepsInOrder ==
    task = "B4" =>
        /\ Len(Effects) <= Len(B4Order)
        /\ \A i \in 1..Len(Effects) : Effects[i].op = B4Order[i]
        /\ \A i \in 1..Len(Effects) :
               Effects[i].ok = "nonzero" =>
                   /\ i = Len(Effects)
                   /\ pc = "done"
                   /\ outcome = "CalledProcessError"
        /\ outcome = "returned" =>
               /\ Len(Effects) = Len(B4Order)
               /\ \A i \in 1..Len(Effects) : Effects[i].ok \in {"zero", "ok"}

\* staging failed after the clone and the marker file: no commit, no notice
C9_Witness ==
    /\ task = "B4"
    /\ outcome = "CalledProcessError"
    /\ Len(Effects) = 3
    /\ Effects[3].op = "git add"

\* C10: no task call ends, normally or with an error, while still holding an
\* open connection or file handle.
C10_HandlesReleased ==
    (task \in Tasks /\ pc = "done") => handles = {}

====
